---- MODULE Spec2Model ----
(***************************************************************************)
(* A model of src/nodes.py, class RandomPromptsMyTest: the template        *)
(* interpreter behind the "Random Prompts MyTest" node.                    *)
(*                                                                         *)
(* Text is a sequence of one-character strings, indexed from 1 (Python     *)
(* indexes from 0; every index below is the Python index plus one, and     *)
(* str.find's -1 is 0 here).  The random source is a pair (seed, pos): the *)
(* seed it was last seeded with and the number of draws made since, and    *)
(* the value of a draw is a fixed function of the pair, as it is for       *)
(* random.Random.                                                          *)
(***************************************************************************)
EXTENDS Integers, Sequences, FiniteSets, TLC

VARIABLES
    obj,    \* instance id -> the fields of one RandomPromptsMyTest object
    frame,  \* instance id -> the call in progress on it, its locals and its result
    files   \* the wildcards directory: wildcard name -> the lines of <name>.txt

vars == <<obj, frame, files>>

----------------------------------------------------------------------------
(* Bounds of the model.                                                    *)

\* Longest template enumerated for _process_choices.
MaxLen == 4
\* Longest text enumerated for generate on brace-free templates.
MaxPlain == 4
\* Longest text enumerated for _limit_blank_lines.
MaxBlank == 6
\* Largest max_consecutive passed to _limit_blank_lines.
MaxConsecutive == 3
\* Longest alternative enumerated for _get_weighted_choice.
MaxChoice == 4
\* Largest seed a caller supplies.
MaxSeed == 2
\* A draw of the random source is one of RandRes equally spaced values of [0, 1).
RandRes == 3
\* The modelled stream of a seed repeats after RandPeriod draws.
RandPeriod == 2
\* Latest reading of the clock, int(time.time() * 1000) % 2**32, in repeated calls.
MaxClock == 2

----------------------------------------------------------------------------
(* Strings.                                                                *)

NL == "\n"

\* The whitespace of the modelled alphabet (str.strip and the regex class \s).
IsSpace(c) == c \in {" ", NL}

IsDigit(c) == c \in {"0", "1", "2", "3", "4", "5", "6", "7", "8", "9"}

DigitVal(c) ==
    CASE c = "0" -> 0 [] c = "1" -> 1 [] c = "2" -> 2 [] c = "3" -> 3
      [] c = "4" -> 4 [] c = "5" -> 5 [] c = "6" -> 6 [] c = "7" -> 7
      [] c = "8" -> 8 [] c = "9" -> 9

RECURSIVE Pow(_, _)
Pow(b, e) == IF e = 0 THEN 1 ELSE b * Pow(b, e - 1)

\* All texts over an alphabet up to a length.
Strs(alphabet, n) == UNION {[1..k -> alphabet] : k \in 0..n}

\* sub occurs in s at index i.
OccursAt(s, sub, i) ==
    /\ i >= 1
    /\ i + Len(sub) - 1 <= Len(s)
    /\ \A k \in 1..Len(sub) : s[i + k - 1] = sub[k]

\* str.find(sub, from): the least index >= from where sub occurs, 0 when none.
Find(s, sub, from) ==
    LET hits == {i \in from..Len(s) : OccursAt(s, sub, i)}
    IN  IF hits = {} THEN 0 ELSE CHOOSE i \in hits : \A k \in hits : i <= k

\* "x in s" for a one-character x.
Contains(s, c) == \E i \in 1..Len(s) : s[i] = c

\* str.strip()
Strip(s) ==
    LET keep == {i \in 1..Len(s) : ~IsSpace(s[i])}
    IN  IF keep = {} THEN <<>>
        ELSE SubSeq(s, CHOOSE i \in keep : \A k \in keep : i <= k,
                       CHOOSE i \in keep : \A k \in keep : i >= k)

\* "c" * n
Repeat(c, n) == [k \in 1..n |-> c]

Count(s, c) == Cardinality({i \in 1..Len(s) : s[i] = c})

----------------------------------------------------------------------------
(* The random source.                                                      *)

\* The seeds that give distinct modelled streams.
Streams == 0..(Pow(RandRes, RandPeriod) - 1)

\* random(): the numerator r of the draw r / RandRes.
RandomUnit(rng) == (rng.seed \div Pow(RandRes, rng.pos % RandPeriod)) % RandRes

\* The source after one draw.
Advance(rng) == [rng EXCEPT !.pos = (@ + 1) % RandPeriod]

\* random.seed(x)
Seeded(x) == [seed |-> x, pos |-> 0]

----------------------------------------------------------------------------
(* Comment removal: the two re.sub calls of _process_choices.              *)

\* re.sub(r"/\*.*?\*/", "", text, flags=re.DOTALL): at each "/*" that has a
\* "*/" starting two or more characters later, drop through the first such.
RECURSIVE StripBlock(_, _)
StripBlock(text, i) ==
    IF i > Len(text) THEN <<>>
    ELSE LET close == IF OccursAt(text, <<"/", "*">>, i)
                      THEN Find(text, <<"*", "/">>, i + 2) ELSE 0
         IN  IF close # 0 THEN StripBlock(text, close + 2)
             ELSE <<text[i]>> \o StripBlock(text, i + 1)

\* re.sub(r"//.*", "", text): "." stops at a line break.
RECURSIVE StripLine(_, _)
StripLine(text, i) ==
    IF i > Len(text) THEN <<>>
    ELSE IF OccursAt(text, <<"/", "/">>, i)
         THEN LET nl == Find(text, <<NL>>, i)
              IN  IF nl = 0 THEN <<>> ELSE StripLine(text, nl)
         ELSE <<text[i]>> \o StripLine(text, i + 1)

StripComments(text) == StripLine(StripBlock(text, 1), 1)

----------------------------------------------------------------------------
(* _limit_blank_lines                                                      *)

\* The least repeat count of the pattern (\n\s*){max_consecutive + 1,}.
MinRepeatOffByOne(max_consecutive) == max_consecutive

MinRepeat(max_consecutive) == max_consecutive + 1

\* The index after the whitespace run that starts at i.
RECURSIVE RunEnd(_, _)
RunEnd(text, i) ==
    IF i <= Len(text) /\ IsSpace(text[i]) THEN RunEnd(text, i + 1) ELSE i

\* re.sub(pattern, "\n" * max_consecutive, text).  The pattern matches at a
\* line break from which the whitespace run holds at least MinRepeat line
\* breaks, and then (its last \s* being greedy) through the end of that run.
RECURSIVE LimitFrom(_, _, _)
LimitFrom(text, max_consecutive, i) ==
    IF i > Len(text) THEN <<>>
    ELSE IF /\ text[i] = NL
            /\ Count(SubSeq(text, i, RunEnd(text, i) - 1), NL)
                   >= MinRepeat(max_consecutive)
         THEN Repeat(NL, max_consecutive)
              \o LimitFrom(text, max_consecutive, RunEnd(text, i))
         ELSE <<text[i]>> \o LimitFrom(text, max_consecutive, i + 1)

LimitBlankLines(text, max_consecutive) == LimitFrom(text, max_consecutive, 1)

----------------------------------------------------------------------------
(* _get_weighted_choice                                                    *)

\* The index of the first character at or after i that is no whitespace.
RECURSIVE SkipSpaces(_, _)
SkipSpaces(s, i) ==
    IF i <= Len(s) /\ IsSpace(s[i]) THEN SkipSpaces(s, i + 1) ELSE i

\* The index of the first character at or after i that is no digit.
RECURSIVE SkipDigits(_, _)
SkipDigits(s, i) ==
    IF i <= Len(s) /\ IsDigit(s[i]) THEN SkipDigits(s, i + 1) ELSE i

\* int() of a digit string.
RECURSIVE DigitsVal(_)
DigitsVal(s) ==
    IF s = <<>> THEN 0
    ELSE 10 * DigitsVal(SubSeq(s, 1, Len(s) - 1)) + DigitVal(s[Len(s)])

\* re.match(r"^\s*(\d+(?:\.\d+)?)::(.*)$", c) and the branch it decides, in
\* the order the pattern is matched.  The weight is num / 10^exp.

\* What "(.*)$" can cover of the text after "::": all of it but one final
\* line break ("$" matches before it).
LineOf(rest) ==
    IF rest # <<>> /\ rest[Len(rest)] = NL THEN SubSeq(rest, 1, Len(rest) - 1) ELSE rest

\* Digits from i to j - 1, a fraction from j + 1 to k - 1 when k > j, "::" due
\* at k, body after it.  "." matches no line break, so a body holding one
\* fails the match, and the alternative is then taken whole with weight 1.0.
ParseBody(c, i, j, k, body) ==
    IF j > i /\ OccursAt(c, <<":", ":">>, k) /\ ~Contains(body, NL)
    THEN [match |-> TRUE,
          num |-> DigitsVal(SubSeq(c, i, j - 1) \o SubSeq(c, j + 1, k - 1)),
          exp |-> IF k > j THEN k - j - 1 ELSE 0,
          text |-> Strip(body)]
    ELSE [match |-> FALSE, num |-> 1, exp |-> 0, text |-> Strip(c)]

\* "(?:\.\d+)?" ended at m: it matched when at least one digit followed ".".
ParseFraction(c, i, j, m) ==
    ParseBody(c, i, j, IF m > j + 1 THEN m ELSE j,
              LineOf(SubSeq(c, (IF m > j + 1 THEN m ELSE j) + 2, Len(c))))

\* "\d+" ended at j.
ParseDigits(c, i, j) ==
    ParseFraction(c, i, j,
                  IF j <= Len(c) /\ c[j] = "." THEN SkipDigits(c, j + 1) ELSE j)

\* "\s*" ended at i.
ParseFrom(c, i) == ParseDigits(c, i, SkipDigits(c, i))

ParseChoice(c) == ParseFrom(c, SkipSpaces(c, 1))

\* The loop "for c in choices".
ParseAll(choices) == [k \in 1..Len(choices) |-> ParseChoice(choices[k])]

\* The result of a call that raised.
Raised(rng) ==
    [raised |-> TRUE, selected |-> <<>>, rng |-> rng,
     parsed_choices |-> <<>>, weights |-> <<>>]

\* The largest number of fraction digits among the weights.
Scale(parsed) ==
    IF parsed = <<>> THEN 0
    ELSE CHOOSE e \in {parsed[k].exp : k \in 1..Len(parsed)} :
             \A k \in 1..Len(parsed) : parsed[k].exp <= e

\* itertools.accumulate(weights), on the common scale 10^scale.
RECURSIVE CumWeights(_, _, _)
CumWeights(parsed, scale, k) ==
    IF k = 0 THEN 0
    ELSE CumWeights(parsed, scale, k - 1)
         + parsed[k].num * Pow(10, scale - parsed[k].exp)

\* bisect(cum_weights, r * total, 0, n - 1) for the draw r / RandRes.
Bisect(parsed, scale, r, total) ==
    1 + Cardinality({k \in 1..(Len(parsed) - 1) :
                        CumWeights(parsed, scale, k) * RandRes <= r * total})

\* random.choices(parsed_choices, weights=weights, k=1)[0] with the total
\* weight known: ValueError when it is not positive.
ChooseWeighted(parsed, scale, total, rng) ==
    IF total <= 0 THEN Raised(rng)
    ELSE [raised |-> FALSE,
          selected |-> parsed[Bisect(parsed, scale, RandomUnit(rng), total)].text,
          rng |-> Advance(rng),
          parsed_choices |-> [k \in 1..Len(parsed) |-> parsed[k].text],
          weights |-> [k \in 1..Len(parsed) |->
                          [num |-> parsed[k].num, exp |-> parsed[k].exp]]]

\* Line 99 on the parsed alternatives: an empty population raises IndexError.
ChooseParsed(parsed, scale, rng) ==
    IF parsed = <<>> THEN Raised(rng)
    ELSE ChooseWeighted(parsed, scale, CumWeights(parsed, scale, Len(parsed)), rng)

ChooseFrom(parsed, rng) == ChooseParsed(parsed, Scale(parsed), rng)

GetWeightedChoice(choices, rng) == ChooseFrom(ParseAll(choices), rng)

----------------------------------------------------------------------------
(* _process_choices                                                        *)

\* The inner while loop: from j with brace_level open braces, to the index
\* after the closing brace (brace_level 0) or to the end of the text.
RECURSIVE MatchBrace(_, _, _)
MatchBrace(text, j, brace_level) ==
    IF j <= Len(text) /\ brace_level > 0
    THEN MatchBrace(text, j + 1,
                    IF text[j] = "{" THEN brace_level + 1
                    ELSE IF text[j] = "}" THEN brace_level - 1
                    ELSE brace_level)
    ELSE [j |-> j, brace_level |-> brace_level]

\* The for loop over inner_content: split on "|" at nested_level 0.
RECURSIVE SplitLoop(_, _, _, _, _)
SplitLoop(inner_content, k, choices, current_choice, nested_level) ==
    IF k > Len(inner_content)
    THEN [choices |-> choices, current_choice |-> current_choice]
    ELSE IF inner_content[k] = "|" /\ nested_level = 0
         THEN SplitLoop(inner_content, k + 1,
                        Append(choices, Strip(current_choice)), <<>>, nested_level)
         ELSE SplitLoop(inner_content, k + 1, choices,
                        Append(current_choice, inner_content[k]),
                        IF inner_content[k] = "{" THEN nested_level + 1
                        ELSE IF inner_content[k] = "}" THEN nested_level - 1
                        ELSE nested_level)

\* The trailing alternative, kept only when it is non-empty once trimmed.
TrailingChoiceTrimmedFirst(choices, current_choice) ==
    IF Strip(current_choice) # <<>>
    THEN Append(choices, Strip(current_choice)) ELSE choices

\* "if current_choice: choices.append(...strip())" after the loop.
TrailingChoice(choices, current_choice) ==
    IF current_choice # <<>>
    THEN Append(choices, Strip(current_choice)) ELSE choices

\* Lines 146-147 on what the loop left.
SplitEnd(r) == TrailingChoice(r.choices, r.current_choice)

\* The alternatives of a block's interior.
SplitChoices(inner_content) == SplitEnd(SplitLoop(inner_content, 1, <<>>, <<>>, 0))

\* No alternative is taken to hold a nested block.
HasNestedNever(choice) == FALSE

\* "if '{' in choice": the alternative is resolved before the selection.
HasNested(choice) == Contains(choice, "{")

\* An unmatched "{" is skipped instead of copied.
EmitLiteralDropBrace(result, ch) == IF ch = "{" THEN result ELSE Append(result, ch)

\* "result.append(text[i])"
EmitLiteral(result, ch) == Append(result, ch)

\* What a _process_choices call gives when an exception leaves it.
ChoicesRaised(rng) ==
    [raised |-> TRUE, text |-> <<>>, rng |-> rng, blocks |-> <<>>]

RECURSIVE ProcessChoices(_, _)
RECURSIVE ProcessEach(_, _, _, _)
RECURSIVE ProcessNested(_, _, _, _)
RECURSIVE ScanChoices(_, _, _, _, _)
RECURSIVE ScanBlock(_, _, _, _, _, _)
RECURSIVE ScanMatched(_, _, _, _, _, _)
RECURSIVE ScanProcessed(_, _, _, _, _)
RECURSIVE ScanSelected(_, _, _, _, _)

\* "processed_choices.append(self._process_choices(choice))", sub being the
\* result of the nested call.
ProcessNested(choices, k, processed_choices, sub) ==
    IF sub.raised
    THEN [raised |-> TRUE, processed_choices |-> <<>>, rng |-> sub.rng]
    ELSE ProcessEach(choices, k + 1, sub.rng, Append(processed_choices, sub.text))

\* The loop "for choice in choices" that builds processed_choices.
ProcessEach(choices, k, rng, processed_choices) ==
    IF k > Len(choices)
    THEN [raised |-> FALSE, processed_choices |-> processed_choices, rng |-> rng]
    ELSE IF HasNested(choices[k])
         THEN ProcessNested(choices, k, processed_choices,
                            ProcessChoices(choices[k], rng))
         ELSE ProcessEach(choices, k + 1, rng, Append(processed_choices, choices[k]))

\* Lines 161-163: append the selection g made and go on after the block.
ScanSelected(text, j, result, blocks, g) ==
    IF g.raised THEN ChoicesRaised(g.rng)
    ELSE ScanChoices(text, j, g.rng, result \o g.selected, blocks)

\* Lines 158-163 with the alternatives resolved (p): select when there are any.
ScanProcessed(text, j, result, blocks, p) ==
    IF p.raised THEN ChoicesRaised(p.rng)
    ELSE IF p.processed_choices # <<>>
         THEN ScanSelected(text, j, result, blocks,
                           GetWeightedChoice(p.processed_choices, p.rng))
         ELSE ScanChoices(text, j, p.rng, result, blocks)

\* Lines 149-155 on the alternatives of the block that ends before j.  blocks
\* records the list choices of every block this call matched, as it stands
\* after line 147.
ScanMatched(text, j, rng, result, blocks, choices) ==
    ScanProcessed(text, j, result, Append(blocks, choices),
                  ProcessEach(choices, 1, rng, <<>>))

\* Lines 124-166 at a "{" at i, m being where the search for its "}" ended.
ScanBlock(text, i, rng, result, blocks, m) ==
    IF m.brace_level = 0
    THEN ScanMatched(text, m.j, rng, result, blocks,
                     SplitChoices(SubSeq(text, i + 1, m.j - 2)))
    ELSE ScanChoices(text, i + 1, rng, EmitLiteral(result, text[i]), blocks)

\* The loop "while i < len(text)".
ScanChoices(text, i, rng, result, blocks) ==
    IF i > Len(text)
    THEN [raised |-> FALSE, text |-> result, rng |-> rng, blocks |-> blocks]
    ELSE IF text[i] = "{"
         THEN ScanBlock(text, i, rng, result, blocks, MatchBrace(text, i + 1, 1))
         ELSE ScanChoices(text, i + 1, rng, EmitLiteral(result, text[i]), blocks)

ProcessChoices(text, rng) == ScanChoices(StripComments(text), 1, rng, <<>>, <<>>)

----------------------------------------------------------------------------
(* The object: __init__, the wildcard files, _process_wildcards.           *)

\* _last_seed before any seeded call (Python's None; no seed equals it).
None == -1

\* The object __init__ builds; random.Random() seeds itself from the system,
\* here with entropy.
NewObject(entropy) ==
    [_random |-> Seeded(entropy),
     _last_seed |-> None,
     _choice_history |-> <<>>,
     _wildcards_cache |-> <<>>]

\* The list comprehension of _load_wildcard_file: stripped non-blank lines.
RECURSIVE StrippedLines(_)
StrippedLines(lines) ==
    IF lines = <<>> THEN <<>>
    ELSE (IF Strip(Head(lines)) # <<>> THEN <<Strip(Head(lines))>> ELSE <<>>)
         \o StrippedLines(Tail(lines))

\* _load_wildcard_file: the entries of <wildcard>.txt, [] when there is none.
LoadWildcardFile(wildcard) ==
    IF wildcard \in DOMAIN files THEN StrippedLines(files[wildcard]) ELSE <<>>

\* random.choice(options): one draw, scaled to an index.
RandomChoice(options, rng) == options[(RandomUnit(rng) * Len(options)) \div RandRes + 1]

\* text[:start] + replacement + text[end+2:]
Splice(text, start, end, replacement) ==
    SubSeq(text, 1, start - 1) \o replacement \o SubSeq(text, end + 2, Len(text))

\* Lines 61-62: load the list on its first use, keep the cached one after.
Cached(o, wildcard_name) ==
    IF wildcard_name \in DOMAIN o._wildcards_cache
    THEN o
    ELSE [o EXCEPT !._wildcards_cache =
                       (wildcard_name :> LoadWildcardFile(wildcard_name)) @@ @]

\* Lines 64-69, the cache holding the name: a random entry, or the bare name
\* when the list is empty.
Substitute(o, text, start, end, wildcard_name) ==
    IF o._wildcards_cache[wildcard_name] # <<>>
    THEN [done |-> FALSE,
          text |-> Splice(text, start, end,
                          RandomChoice(o._wildcards_cache[wildcard_name], o._random)),
          obj  |-> [o EXCEPT !._random = Advance(@)]]
    ELSE [done |-> FALSE,
          text |-> Splice(text, start, end, wildcard_name),
          obj  |-> o]

\* Lines 55-69 with the opening marker at start and the closing one at end.
Resolve(o, text, start, end) ==
    IF end = 0 THEN [done |-> TRUE, text |-> text, obj |-> o]
    ELSE Substitute(Cached(o, SubSeq(text, start + 2, end - 1)), text, start, end,
                    SubSeq(text, start + 2, end - 1))

\* Lines 53-55 with the first "__" at start (0: there is none).
Scan(o, text, start) ==
    IF start = 0 THEN [done |-> TRUE, text |-> text, obj |-> o]
    ELSE Resolve(o, text, start, Find(text, <<"_", "_">>, start + 2))

\* One pass of "while '__' in text": done when the loop is left, else the
\* text after the substitution, with the cache filled and the draw made.
WildcardIteration(o, text) == Scan(o, text, Find(text, <<"_", "_">>, 1))

----------------------------------------------------------------------------
(* generate                                                                *)

\* "Error in prompt generation"
ErrorString ==
    <<"E", "r", "r", "o", "r", " ", "i", "n", " ", "p", "r", "o", "m", "p", "t",
      " ", "g", "e", "n", "e", "r", "a", "t", "i", "o", "n">>

\* The seed is applied whenever it is positive, also when it was the last one.
SeedStageAlways(o, seed, clock) ==
    IF seed > 0
    THEN [o EXCEPT !._random = Seeded(seed), !._last_seed = seed,
                   !._choice_history = <<>>]
    ELSE [o EXCEPT !._random = Seeded(clock)]

\* Lines 209-215: reseed and reset the history on a new positive seed, keep
\* everything on a repeated one, reseed from the clock on seed 0.  clock is
\* int(time.time() * 1000) % 2**32.
SeedStage(o, seed, clock) ==
    IF seed > 0
    THEN IF seed # o._last_seed
         THEN [o EXCEPT !._random = Seeded(seed), !._last_seed = seed,
                        !._choice_history = <<>>]
         ELSE o
    ELSE [o EXCEPT !._random = Seeded(clock)]

\* The exception leaves generate.
TryExceptMissing(body) ==
    IF body.raised THEN [kind |-> "raise", value |-> <<>>]
    ELSE [kind |-> "return", value |-> body.value]

\* try ... except Exception: return ("Error in prompt generation",)
TryExcept(body) ==
    IF body.raised THEN [kind |-> "return", value |-> ErrorString]
    ELSE [kind |-> "return", value |-> body.value]

\* The try body after the wildcards: _process_choices, then
\* _limit_blank_lines(result, max_consecutive=3).
\* The blank lines are limited to two.
LimitedToTwo(p) ==
    [raised |-> p.raised,
     value  |-> IF p.raised THEN <<>> ELSE LimitBlankLines(p.text, 2),
     rng    |-> p.rng]

\* Lines 224-227 on the result p of _process_choices.
Limited(p) ==
    [raised |-> p.raised,
     value  |-> IF p.raised THEN <<>> ELSE LimitBlankLines(p.text, 3),
     rng    |-> p.rng]

ExpandBody(text, rng) == Limited(ProcessChoices(text, rng))

----------------------------------------------------------------------------
(* The state machine.                                                      *)

Instances == {1, 2}

NoResult == [kind |-> "none", value |-> <<>>]

\* No call made yet.
IdleFrame ==
    [fn |-> "none", pc |-> "idle", text |-> <<>>, seed |-> 0, choices |-> <<>>,
     max_consecutive |-> 0, work |-> <<>>, ret |-> NoResult, failed |-> FALSE,
     blocks |-> <<>>, parsed_choices |-> <<>>, weights |-> <<>>,
     before |-> Seeded(0), prev |-> NoResult, prevArgs |-> <<>>]

\* A call entered with its arguments, nothing executed yet.
Entered(f, fn, text, seed, choices, max_consecutive) ==
    [f EXCEPT !.fn = fn, !.pc = "enter", !.text = text, !.seed = seed,
              !.choices = choices, !.max_consecutive = max_consecutive,
              !.work = <<>>, !.ret = NoResult, !.failed = FALSE,
              !.blocks = <<>>, !.parsed_choices = <<>>, !.weights = <<>>,
              !.prev = IF f.fn = "generate" THEN f.ret ELSE NoResult,
              !.prevArgs = IF f.fn = "generate" THEN <<f.text, f.seed>> ELSE <<>>]

\* The host calls generate(text, seed, autorefresh) on an idle object.
Call(self, text, seed) ==
    /\ frame[self].pc = "idle"
    /\ frame' = [frame EXCEPT ![self] = Entered(@, "generate", text, seed, <<>>, 0)]
    /\ UNCHANGED <<obj, files>>

\* generate, lines 209-215: the seeding, at wall-clock time clock.
Generate(self, clock) ==
    /\ frame[self].pc = "enter"
    /\ frame[self].fn = "generate"
    /\ obj' = [obj EXCEPT ![self] = SeedStage(@, frame[self].seed, clock)]
    /\ frame' = [frame EXCEPT ![self].pc = "wildcards",
                              ![self].work = frame[self].text,
                              ![self].before = obj[self]._random]
    /\ UNCHANGED files

\* The object and the frame after a pass r of the wildcard loop.
WildcardStepTo(self, r) ==
    /\ obj' = [obj EXCEPT ![self] = r.obj]
    /\ frame' = [frame EXCEPT ![self].work = r.text,
                              ![self].pc = IF r.done THEN "choices" ELSE "wildcards"]

\* generate, line 219: one pass of the loop of _process_wildcards.
WildcardStep(self) ==
    /\ frame[self].pc = "wildcards"
    /\ \E r \in {WildcardIteration(obj[self], frame[self].work)} : WildcardStepTo(self, r)
    /\ UNCHANGED files

\* The object and the frame when the try statement is left with body.
ExpandTo(self, body) ==
    /\ obj' = [obj EXCEPT ![self]._random = body.rng]
    /\ frame' = [frame EXCEPT ![self].pc = "idle",
                              ![self].ret = TryExcept(body),
                              ![self].failed = body.raised]

\* generate, lines 222-230: the choices, the blank lines, the return or the
\* except clause.
Expand(self) ==
    /\ frame[self].pc = "choices"
    /\ \E body \in {ExpandBody(frame[self].work, obj[self]._random)} : ExpandTo(self, body)
    /\ UNCHANGED files

\* What a direct call gives its caller: the value, or the exception.
Outcome(raised, value) ==
    IF raised THEN [kind |-> "raise", value |-> <<>>]
    ELSE [kind |-> "return", value |-> value]

CallProcessChoicesTo(self, p) ==
    /\ obj' = [obj EXCEPT ![self]._random = p.rng]
    /\ frame' = [frame EXCEPT ![self].pc = "idle",
                              ![self].ret = Outcome(p.raised, p.text),
                              ![self].failed = p.raised,
                              ![self].blocks = p.blocks]

\* A direct call of _process_choices(text).
CallProcessChoices(self) ==
    /\ frame[self].pc = "enter"
    /\ frame[self].fn = "_process_choices"
    /\ CallProcessChoicesTo(self, ProcessChoices(frame[self].text, obj[self]._random))
    /\ UNCHANGED files

\* A direct call of _limit_blank_lines(text, max_consecutive).
CallLimitBlankLines(self) ==
    /\ frame[self].pc = "enter"
    /\ frame[self].fn = "_limit_blank_lines"
    /\ frame' = [frame EXCEPT
           ![self].pc = "idle",
           ![self].ret = [kind |-> "return",
                          value |-> LimitBlankLines(frame[self].text,
                                                    frame[self].max_consecutive)]]
    /\ UNCHANGED <<obj, files>>

CallGetWeightedChoiceTo(self, g) ==
    /\ obj' = [obj EXCEPT ![self]._random = g.rng]
    /\ frame' = [frame EXCEPT ![self].pc = "idle",
                              ![self].ret = Outcome(g.raised, g.selected),
                              ![self].failed = g.raised,
                              ![self].parsed_choices = g.parsed_choices,
                              ![self].weights = g.weights]

\* A direct call of _get_weighted_choice(choices, choice_block_id).
CallGetWeightedChoice(self) ==
    /\ frame[self].pc = "enter"
    /\ frame[self].fn = "_get_weighted_choice"
    /\ CallGetWeightedChoiceTo(self, GetWeightedChoice(frame[self].choices,
                                                      obj[self]._random))
    /\ UNCHANGED files

----------------------------------------------------------------------------
(* Inputs.                                                                 *)

\* Templates of the documentation and of the class docstring, shortened to
\* one-letter words where the words do not matter.
NestedExample     == <<"{", "a", "|", "{", "b", "|", "c", "}", "}">>
UnbalancedExample == <<"{", "a", "|", "b">>
BlankTailExample  == <<"{", "a", "|", " ", "}">>
WeightedExample   == <<"{", "5", ":", ":", "a", "|", "2", ":", ":", "b", "|",
                       "1", ":", ":", "c", "}">>
ZeroWeightExample == <<"{", "0", ":", ":", "a", "}">>
NestedZeroExample == <<"{", "a", "|", "{", "0", ":", ":", "b", "}", "}">>
PartialExample    == <<"a", "{", "a", "|", "b", "}", "{", "0", ":", ":", "b", "}">>
LineCommentBrace  == <<"{", "/", "/", "}">>
BlockCommentBrace == <<"/", "*", "{", "*", "/", "}">>
CommentedExample  == <<"{", "a", "|", "b", "}", "/", "/", "c">>
WildcardExample   == <<"_", "_", "w", "_", "_">>
SixBreaks         == <<NL, NL, NL, NL, NL, NL>>

ChoiceExamples ==
    {NestedExample, UnbalancedExample, BlankTailExample, WeightedExample,
     ZeroWeightExample, NestedZeroExample, PartialExample, LineCommentBrace,
     BlockCommentBrace, CommentedExample}

\* The templates given to _process_choices.
ChoiceTexts == Strs({"{", "}", "|", "a", " "}, MaxLen) \cup ChoiceExamples

\* Templates with no brace and no wildcard.
PlainTexts == Strs({"a", "/", "*", NL}, MaxPlain)

\* Texts given to _limit_blank_lines.
BlankTexts == Strs({"a", " ", NL}, MaxBlank)

\* Alternatives given to _get_weighted_choice.
WeightedChoices ==
    Strs({"1", "0", ".", ":", "a", NL}, MaxChoice)
    \cup {<<"2", ":", ":", "a", NL, "b">>, <<" ", "2", ":", ":", "a">>,
          <<"1", ".", "5", ":", ":", "a">>}

\* The templates of repeated generate calls.
GenTexts ==
    {NestedExample, <<"{", "a", "|", "b", "}">>, ZeroWeightExample, PartialExample,
     WildcardExample, SixBreaks}

\* The wildcards directory of repeated generate calls: w.txt.
GenFiles == (<<"w">> :> <<<<"x">>, <<" ", "y">>, <<" ">>>>)

\* The seeds a caller supplies.
Seeds == 0..MaxSeed

\* The readings of the clock in repeated calls.
Clocks == 0..MaxClock

\* Word lists whose entries are plain or are wildcard tokens themselves.
WildEntries == {<<"x">>, <<"_", "_", "a", "_", "_">>, <<"_", "_", "b", "_", "_">>}

WildLists == {<<e>> : e \in WildEntries} \cup {<<e, <<"x">>>> : e \in WildEntries}

\* The wildcards directories: empty, with a.txt, with a.txt and a one-entry
\* b.txt.
WildTables ==
    {<<>>} \cup {(<<"a">> :> l) : l \in WildLists}
           \cup {(<<"a">> :> <<e>>) @@ (<<"b">> :> <<f>>) : e \in WildEntries, f \in WildEntries}

\* Templates with wildcard tokens.
WildTexts == {<<"_", "_", "a", "_", "_">>, <<"_", "_", "b", "_", "_">>,
              <<"_", "_", "a", "_", "_", "_", "_", "b", "_", "_">>,
              <<"_", "_", "a">>, <<"_", "_", "_", "_">>, <<"_", "_", "g", "_", "_">>,
              <<"a", "_", "_", "b", "_", "_", "_">>}

----------------------------------------------------------------------------
(* Specifications.                                                         *)

\* Repeated generate calls on one object.
Init ==
    /\ files = GenFiles
    /\ \E e \in Clocks : obj = [i \in Instances |-> NewObject(e)]
    /\ frame = [i \in Instances |-> IdleFrame]

Next ==
    \/ \E t \in GenTexts, s \in Seeds : Call(1, t, s)
    \/ \E clock \in Clocks : Generate(1, clock)
    \/ WildcardStep(1)
    \/ Expand(1)

Spec == Init /\ [][Next]_vars

\* One call of _process_choices on each template, from each stream, or one
\* generate call with seed 0 on each example, at each reading of the clock.
InitChoices ==
    /\ files = <<>>
    /\ \/ /\ \E e \in Streams : obj = [i \in Instances |-> NewObject(e)]
          /\ \E t \in ChoiceTexts :
                frame = [i \in Instances |->
                            IF i = 1
                            THEN Entered(IdleFrame, "_process_choices", t, 0, <<>>, 0)
                            ELSE IdleFrame]
       \/ /\ obj = [i \in Instances |-> NewObject(0)]
          /\ \E t \in ChoiceExamples :
                frame = [i \in Instances |->
                            IF i = 1 THEN Entered(IdleFrame, "generate", t, 0, <<>>, 0)
                            ELSE IdleFrame]

NextChoices ==
    \/ CallProcessChoices(1)
    \/ \E clock \in Streams : Generate(1, clock)
    \/ WildcardStep(1)
    \/ Expand(1)

SpecChoices == InitChoices /\ [][NextChoices]_vars

\* One generate call on each template without braces and wildcards.
InitPlain ==
    /\ files = <<>>
    /\ obj = [i \in Instances |-> NewObject(0)]
    /\ \E t \in PlainTexts, s \in Seeds :
          frame = [i \in Instances |->
                      IF i = 1 THEN Entered(IdleFrame, "generate", t, s, <<>>, 0)
                      ELSE IdleFrame]

NextPlain ==
    \/ \E clock \in Streams : Generate(1, clock)
    \/ WildcardStep(1)
    \/ Expand(1)

SpecPlain == InitPlain /\ [][NextPlain]_vars

\* One call of _limit_blank_lines, or one generate call, on each text.
InitBlank ==
    /\ files = <<>>
    /\ obj = [i \in Instances |-> NewObject(0)]
    /\ \E t \in BlankTexts :
          \/ \E n \in 0..MaxConsecutive :
                frame = [i \in Instances |->
                            IF i = 1
                            THEN Entered(IdleFrame, "_limit_blank_lines", t, 0, <<>>, n)
                            ELSE IdleFrame]
          \/ frame = [i \in Instances |->
                         IF i = 1 THEN Entered(IdleFrame, "generate", t, 1, <<>>, 0)
                         ELSE IdleFrame]

NextBlank ==
    \/ CallLimitBlankLines(1)
    \/ Generate(1, 0)
    \/ WildcardStep(1)
    \/ Expand(1)

SpecBlank == InitBlank /\ [][NextBlank]_vars

\* One call of _get_weighted_choice on one alternative, alone or before a
\* second one.
InitWeighted ==
    /\ files = <<>>
    /\ \E e \in Streams : obj = [i \in Instances |-> NewObject(e)]
    /\ \E c \in WeightedChoices, l \in {<<>>, <<<<"b">>>>, <<<<"0", ":", ":", "b">>>>} :
          frame = [i \in Instances |->
                      IF i = 1
                      THEN Entered(IdleFrame, "_get_weighted_choice", <<>>, 0, <<c>> \o l, 0)
                      ELSE IdleFrame]

NextWeighted == CallGetWeightedChoice(1)

SpecWeighted == InitWeighted /\ [][NextWeighted]_vars

\* Two objects driven through the same sequence of generate calls, each
\* reading the clock on its own.
CallPair(t, s) ==
    /\ \A i \in Instances : frame[i].pc = "idle"
    /\ frame' = [i \in Instances |-> Entered(frame[i], "generate", t, s, <<>>, 0)]
    /\ UNCHANGED <<obj, files>>

TwinTexts == {<<"{", "a", "|", "b", "}">>, <<"a">>}

InitTwin ==
    /\ files = <<>>
    /\ obj = [i \in Instances |-> NewObject(0)]
    /\ frame = [i \in Instances |-> IdleFrame]

NextTwin ==
    \/ \E t \in TwinTexts, s \in Seeds : CallPair(t, s)
    \/ \E i \in Instances, clock \in Clocks : Generate(i, clock)
    \/ \E i \in Instances : WildcardStep(i)
    \/ \E i \in Instances : Expand(i)

SpecTwin == InitTwin /\ [][NextTwin]_vars

\* One generate call on a template with wildcards, over each directory.  A
\* call that has started keeps executing.
InitWild ==
    /\ files \in WildTables
    /\ obj = [i \in Instances |-> NewObject(0)]
    /\ \E t \in WildTexts, s \in {0, 1} :
          frame = [i \in Instances |->
                      IF i = 1 THEN Entered(IdleFrame, "generate", t, s, <<>>, 0)
                      ELSE IdleFrame]

NextWild ==
    \/ \E clock \in Clocks : Generate(1, clock)
    \/ WildcardStep(1)
    \/ Expand(1)

SpecWild == InitWild /\ [][NextWild]_vars /\ WF_vars(NextWild)

----------------------------------------------------------------------------
(* Vocabulary of the properties.                                           *)

\* The call on the first object has returned or raised.
Done(fn) == frame[1].fn = fn /\ frame[1].pc = "idle" /\ frame[1].ret.kind # "none"

\* It returned a value.
Returned(fn) == Done(fn) /\ frame[1].ret.kind = "return"

HasBrace(s) == Contains(s, "{") \/ Contains(s, "}")

NoWildcards(s) == Find(s, <<"_", "_">>, 1) = 0

\* Open braces minus closing braces in s[i..j].
Balance(s, i, j) == Count(SubSeq(s, i, j), "{") - Count(SubSeq(s, i, j), "}")

\* Depth counting never goes below zero and ends at zero.
WellNested(s) ==
    /\ \A k \in 1..Len(s) : Balance(s, 1, k) >= 0
    /\ Balance(s, 1, Len(s)) = 0

\* The "{" at i has a matching "}" by depth counting.
Matched(s, i) == s[i] = "{" /\ \E j \in (i + 1)..Len(s) : Balance(s, i, j) = 0

Unmatched(s) == {i \in 1..Len(s) : s[i] = "{" /\ ~Matched(s, i)}

\* No comment is left: stripping changes nothing.
CommentFree(s) == StripComments(s) = s

\* The characters of s that are no whitespace, in order.
NonSpace(s) == SelectSeq(s, LAMBDA c : ~IsSpace(c))

\* The index of the k-th character of s that is no whitespace; 0 for k = 0 and
\* Len(s) + 1 past the last.
NonSpaceAt(s, k) ==
    IF k = 0 THEN 0
    ELSE IF k > Len(NonSpace(s)) THEN Len(s) + 1
    ELSE CHOOSE i \in 1..Len(s) :
             ~IsSpace(s[i]) /\ Len(NonSpace(SubSeq(s, 1, i))) = k

\* The k-th maximal whitespace run of s: the one before its k-th character
\* that is no whitespace (empty when two such characters are adjacent).
Gap(s, k) == SubSeq(s, NonSpaceAt(s, k - 1) + 1, NonSpaceAt(s, k) - 1)

Gaps(s) == 1..(Len(NonSpace(s)) + 1)

Breaks(s) == Count(s, NL)

\* v is t with every whitespace run of more than n line breaks cut to n line
\* breaks, and nothing else changed.
Collapsed(t, v, n) ==
    /\ NonSpace(v) = NonSpace(t)
    /\ \A k \in Gaps(t) :
          IF Breaks(Gap(t, k)) > n
          THEN Breaks(Gap(v, k)) = n
          ELSE Gap(v, k) = Gap(t, k)

----------------------------------------------------------------------------
(* C1                                                                      *)

C1_Case(text) ==
    /\ frame[1].text = text
    /\ Returned("_process_choices") \/ Returned("generate")
    /\ NoWildcards(text)

C1_Output ==
    /\ ~HasBrace(frame[1].ret.value)
    /\ frame[1].text = NestedExample /\ ~frame[1].failed
          => frame[1].ret.value \in {<<"a">>, <<"b">>, <<"c">>}

\* C1 as stated: a template without wildcards whose braces are well nested
\* never gives a "{" or "}" in the output, and "{a|{b|c}}" gives a, b or c.
C1_AsStated ==
    C1_Case(frame[1].text) /\ WellNested(frame[1].text) => C1_Output

\* C1, amended: a template without wildcards whose text after comment removal
\* has well-nested braces and no comment left never gives a "{" or "}" in the
\* output (of _process_choices or of generate), and "{a|{b|c}}" gives a, b or c.
C1_NoBraceInOutput ==
    /\ C1_Case(frame[1].text)
    /\ WellNested(StripComments(frame[1].text))
    /\ CommentFree(StripComments(frame[1].text))
    => C1_Output

\* The nested block of "{a|{b|c}}" was resolved and its second alternative won.
C1_Witness ==
    /\ Returned("generate")
    /\ frame[1].text = NestedExample
    /\ frame[1].ret.value = <<"c">>

----------------------------------------------------------------------------
(* C2                                                                      *)

----------------------------------------------------------------------------
(* C8                                                                      *)

\* The first matched "{" of s, and the index of its "}".
FirstOpen(s) == CHOOSE i \in 1..Len(s) : Matched(s, i) /\ \A k \in 1..(i - 1) : ~Matched(s, k)

CloseOf(s, i) ==
    CHOOSE j \in (i + 1)..Len(s) :
        Balance(s, i, j) = 0 /\ \A k \in (i + 1)..(j - 1) : Balance(s, i, k) # 0

\* The interior of the first matched block of s.
FirstInterior(s) == SubSeq(s, FirstOpen(s) + 1, CloseOf(s, FirstOpen(s)) - 1)

\* The "|" of an interior at nesting depth 0.
Bars(inner) == {k \in 1..Len(inner) : inner[k] = "|" /\ Balance(inner, 1, k - 1) = 0}

\* The text after the last top-level "|", untrimmed.
TailOf(inner) ==
    SubSeq(inner, 1 + (CHOOSE k \in Bars(inner) \cup {0} : \A b \in Bars(inner) : b <= k),
           Len(inner))

\* A matched block was split by a _process_choices call that returned.
C8_Case ==
    /\ Returned("_process_choices")
    /\ frame[1].blocks # <<>>

\* C8 as stated: every alternative is trimmed, and the trailing one is in the
\* list only if it is non-empty after trimming, so "{a| }" has the single
\* alternative "a" and expands to "a".
C8_AsStated ==
    C8_Case =>
        /\ \A k \in 1..Len(frame[1].blocks[1]) :
              Strip(frame[1].blocks[1][k]) = frame[1].blocks[1][k]
        /\ Len(frame[1].blocks[1])
              = Cardinality(Bars(FirstInterior(StripComments(frame[1].text))))
                + (IF Strip(TailOf(FirstInterior(StripComments(frame[1].text)))) # <<>>
                   THEN 1 ELSE 0)
        /\ frame[1].text = BlankTailExample
              => frame[1].blocks[1] = <<<<"a">>>> /\ frame[1].ret.value = <<"a">>

\* C8, amended: every alternative is trimmed, and the trailing one is in the
\* list exactly when it is non-empty before trimming (a trailing alternative
\* of whitespace only is kept, as the empty alternative), so "{a| }" has the
\* alternatives "a" and "" and expands to one of them.
C8_TrailingAlternative ==
    C8_Case =>
        /\ \A k \in 1..Len(frame[1].blocks[1]) :
              Strip(frame[1].blocks[1][k]) = frame[1].blocks[1][k]
        /\ Len(frame[1].blocks[1])
              = Cardinality(Bars(FirstInterior(StripComments(frame[1].text))))
                + (IF TailOf(FirstInterior(StripComments(frame[1].text))) # <<>>
                   THEN 1 ELSE 0)
        /\ TailOf(FirstInterior(StripComments(frame[1].text))) # <<>>
              => frame[1].blocks[1][Len(frame[1].blocks[1])]
                     = Strip(TailOf(FirstInterior(StripComments(frame[1].text))))
        /\ frame[1].text = BlankTailExample
              => /\ frame[1].blocks[1] = <<<<"a">>, <<>>>>
                 /\ frame[1].ret.value \in {<<"a">>, <<>>}

\* "{a| }" expanded to its empty trailing alternative.
C8_Witness ==
    /\ C8_Case
    /\ frame[1].text = BlankTailExample
    /\ frame[1].ret.value = <<>>

----------------------------------------------------------------------------
(* C3                                                                      *)

\* generate returned for a template with no brace and no wildcard.
C3_Case ==
    /\ Returned("generate")
    /\ ~HasBrace(frame[1].text)
    /\ NoWildcards(frame[1].text)

\* C3 as stated: the output equals the input with comments stripped, with no
\* other character added, removed or changed.
C3_AsStated == C3_Case => frame[1].ret.value = StripComments(frame[1].text)

\* C3, amended: the output equals the input with comments stripped and then
\* every whitespace-only run of more than 3 line breaks cut to 3 line breaks,
\* with no other character added, removed or changed; so it equals the
\* comment-stripped input exactly when that holds no such run.
C3_StrippedThenLimited ==
    C3_Case =>
        /\ Collapsed(StripComments(frame[1].text), frame[1].ret.value, 3)
        /\ (frame[1].ret.value = StripComments(frame[1].text))
              <=> \A k \in Gaps(StripComments(frame[1].text)) :
                      Breaks(Gap(StripComments(frame[1].text), k)) <= 3

\* A line comment was cut up to its line break, which stayed.
C3_Witness ==
    /\ C3_Case
    /\ frame[1].text = <<"/", "/", "a", NL>>
    /\ frame[1].ret.value = <<NL>>

----------------------------------------------------------------------------
(* C6                                                                      *)

\* The limit in force in the call that returned: the argument of a direct
\* call, 3 in generate.
C6_Limit == IF frame[1].fn = "generate" THEN 3 ELSE frame[1].max_consecutive

\* C6: the blank-line limiter with maximum N cuts every whitespace run of
\* more than N line breaks to exactly N line breaks and leaves the runs of N
\* or fewer unchanged, as every other character; so the output of generate
\* (N = 3) holds no whitespace run of more than 3 line breaks, and 6 line
\* breaks in a row become exactly 3.
C6_BlankLinesLimited ==
    Returned("_limit_blank_lines") \/ Returned("generate") =>
        /\ Collapsed(frame[1].text, frame[1].ret.value, C6_Limit)
        /\ \A k \in Gaps(frame[1].ret.value) :
              Breaks(Gap(frame[1].ret.value, k)) <= C6_Limit
        /\ frame[1].text = SixBreaks /\ C6_Limit = 3
              => frame[1].ret.value = <<NL, NL, NL>>

\* Six line breaks were cut to three by a direct call with N = 3.
C6_Witness ==
    /\ Returned("_limit_blank_lines")
    /\ frame[1].text = SixBreaks
    /\ frame[1].max_consecutive = 3
    /\ frame[1].ret.value = <<NL, NL, NL>>

----------------------------------------------------------------------------
(* C4                                                                      *)

\* C4: generate never raises: a failure inside the try statement (a block
\* whose alternatives all carry weight 0) makes the call return exactly
\* "Error in prompt generation", with nothing of the expansion made so far.
C4_NeverRaises ==
    /\ \A i \in Instances : frame[i].ret.kind # "raise"
    /\ Returned("generate") /\ frame[1].failed => frame[1].ret.value = ErrorString
    /\ Returned("generate") /\ frame[1].text \in {ZeroWeightExample, PartialExample}
          => frame[1].failed

\* "a{a|b}{0::b}" failed after "a" and one selection, and gave the fallback.
C4_Witness ==
    /\ Returned("generate")
    /\ frame[1].text = PartialExample
    /\ frame[1].failed
    /\ frame[1].ret.value = ErrorString

----------------------------------------------------------------------------
(* C5                                                                      *)

\* The seeding step of a call, and the later steps of it.
C5_Seeding == frame[1].pc = "enter" /\ frame'[1].pc = "wildcards"

C5_Running == frame[1].pc \in {"wildcards", "choices"}

\* C5: a call reseeds the random source with the supplied seed and resets the
\* history exactly when the seed is positive and differs from the last one
\* used; a positive seed equal to the last one leaves source and history as
\* the previous call left them; the rest of the call only draws from the
\* stream it has.
C5_ReseedOnNewSeed ==
    [][/\ C5_Seeding /\ frame[1].seed > 0 /\ frame[1].seed # obj[1]._last_seed
            => /\ obj'[1]._random = Seeded(frame[1].seed)
               /\ obj'[1]._choice_history = <<>>
               /\ obj'[1]._last_seed = frame[1].seed
       /\ C5_Seeding /\ frame[1].seed > 0 /\ frame[1].seed = obj[1]._last_seed
            => /\ obj'[1]._random = obj[1]._random
               /\ obj'[1]._choice_history = obj[1]._choice_history
               /\ obj'[1]._last_seed = obj[1]._last_seed
       /\ C5_Seeding /\ frame[1].seed = 0
            => /\ obj'[1]._choice_history = obj[1]._choice_history
               /\ obj'[1]._last_seed = obj[1]._last_seed
       /\ C5_Running
            => /\ obj'[1]._random.seed = obj[1]._random.seed
               /\ obj'[1]._choice_history = obj[1]._choice_history
               /\ obj'[1]._last_seed = obj[1]._last_seed
      ]_vars

\* Two calls in a row with the same positive seed and the same template: the
\* second started in the middle of the stream and gave another output.
C5_Witness ==
    /\ Returned("generate")
    /\ frame[1].seed > 0
    /\ frame[1].prevArgs = <<frame[1].text, frame[1].seed>>
    /\ frame[1].before.seed = frame[1].seed
    /\ frame[1].before.pos # 0
    /\ frame[1].prev.kind = "return"
    /\ frame[1].prev.value # frame[1].ret.value

----------------------------------------------------------------------------
(* C7                                                                      *)

\* s without its leading whitespace.
LStrip(s) == SubSeq(s, SkipSpaces(s, 1), Len(s))

\* <digits> or <digits>.<digits>
IsNumber(d) ==
    \/ d # <<>> /\ \A i \in 1..Len(d) : IsDigit(d[i])
    \/ \E p \in 2..(Len(d) - 1) :
          d[p] = "." /\ \A i \in (1..Len(d)) \ {p} : IsDigit(d[i])

\* What stands before the first "::" of an alternative, and what after.
PrefixOf(c) == LStrip(SubSeq(c, 1, Find(c, <<":", ":">>, 1) - 1))

RestOf(c) == SubSeq(c, Find(c, <<":", ":">>, 1) + 2, Len(c))

\* The alternative has the form <digits>[.<digits>]::<rest>.
HasWeightPrefix(c) == Find(c, <<":", ":">>, 1) # 0 /\ IsNumber(PrefixOf(c))

\* The digits of a number, and the count of those after its ".".
NumberDigits(d) == SelectSeq(d, IsDigit)

FractionDigits(d) == IF Contains(d, ".") THEN Len(d) - Find(d, <<".">>, 1) ELSE 0

\* C7 as stated: for every alternative <digits>[.<digits>]::<rest>, whatever
\* <rest> is, the number is the weight and <rest> trimmed is the text; every
\* other alternative has weight 1.0 and its whole trimmed self as text.
C7_AsStated ==
    Returned("_get_weighted_choice") =>
        \A k \in 1..Len(frame[1].choices) :
            IF HasWeightPrefix(frame[1].choices[k])
            THEN /\ frame[1].parsed_choices[k] = Strip(RestOf(frame[1].choices[k]))
                 /\ frame[1].weights[k].num
                        * Pow(10, FractionDigits(PrefixOf(frame[1].choices[k])))
                      = DigitsVal(NumberDigits(PrefixOf(frame[1].choices[k])))
                        * Pow(10, frame[1].weights[k].exp)
            ELSE /\ frame[1].parsed_choices[k] = Strip(frame[1].choices[k])
                 /\ frame[1].weights[k] = [num |-> 1, exp |-> 0]

----------------------------------------------------------------------------
(* C9                                                                      *)

\* C9 as stated: two objects driven through the same calls give the same
\* output on every call with a nonzero seed.
C9_AsStated ==
    /\ \A i \in Instances : frame[i].fn = "generate" /\ frame[i].pc = "idle"
    /\ frame[1].seed > 0
    => frame[1].ret = frame[2].ret

----------------------------------------------------------------------------
(* C10                                                                     *)

\* A "__" with a closing "__" after it.
HasToken(s) ==
    Find(s, <<"_", "_">>, 1) # 0 /\ Find(s, <<"_", "_">>, Find(s, <<"_", "_">>, 1) + 2) # 0

\* C10 as stated: the wildcard loop ends for every template and every
\* directory, and when it has ended no token is left in the text.
C10_AsStated ==
    /\ <>(frame[1].pc = "idle" /\ frame[1].ret.kind # "none")
    /\ [](frame[1].pc = "choices" => ~HasToken(frame[1].work))

====
